---- MODULE Spec2Model ----
(***************************************************************************)
(* ASTM E1381 link layer of labbook_connect_plugin_sysmex.                 *)
(*                                                                         *)
(*   Responder : handle_client      (script/simulate_server_connect_astm)  *)
(*   Initiator : send_astm_message  (script/simulate_client_sysmex_...)    *)
(*   Codec     : build_frames / calc_checksum / frame parsing              *)
(*                                                                         *)
(* Bytes are the integers 0..255, byte strings are sequences of bytes.     *)
(* The two directions of the TCP connection are the FIFO queues c2s        *)
(* (analyzer to server) and s2c (server to analyzer).                      *)
(***************************************************************************)
EXTENDS Integers, Sequences, FiniteSets, TLC

\* ------------------------------------------------------------------------
\* Control characters
\* ------------------------------------------------------------------------
ENQ == 5
ACK == 6
NAK == 21
EOT == 4
STX == 2
ETX == 3
ETB == 23
CR == 13
LF == 10

\* Timeouts of the Responder, in seconds
READ_TIMEOUT_S == 15
IDLE_TIMEOUT_S == 120

\* ------------------------------------------------------------------------
\* Bounds of the model
\* ------------------------------------------------------------------------
\* recv_until's max_len (8192 in the program), scaled down so that a frame
\* body can reach it
max_len == 8

\* number of writes the raw peer makes in one session
MaxSends == 3

\* ------------------------------------------------------------------------
\* Byte-string helpers
\* ------------------------------------------------------------------------
RECURSIVE SumSeq(_)
SumSeq(s) == IF s = <<>> THEN 0 ELSE Head(s) + SumSeq(Tail(s))

RECURSIVE Concat(_)
Concat(ss) == IF ss = <<>> THEN <<>> ELSE Head(ss) \o Concat(Tail(ss))

Last(s) == s[Len(s)]

IsPrefix(s, t) == Len(s) <= Len(t) /\ SubSeq(t, 1, Len(s)) = s

\* payload.endswith(b"\r")
EndsWithCR(p) == p # <<>> /\ Last(p) = CR

\* ------------------------------------------------------------------------
\* Checksum codec
\* ------------------------------------------------------------------------
\* variant: the sum is masked with 0x7F
calc_checksum_7bit(frame_bytes) == SumSeq(frame_bytes) % 128

\* sum(frame_bytes) & 0xFF
calc_checksum(frame_bytes) == SumSeq(frame_bytes) % 256

\* one digit of f"{checksum:02X}"
HexDigit(n) == IF n < 10 THEN 48 + n ELSE 55 + n

\* f"{checksum:02X}".encode("ascii")
checksum_str(checksum) == << HexDigit(checksum \div 16), HexDigit(checksum % 16) >>

\* value of one byte as a base-16 digit, -1 when it is none
HexVal(b) ==
    IF b >= 48 /\ b <= 57 THEN b - 48
    ELSE IF b >= 65 /\ b <= 70 THEN b - 55
    ELSE IF b >= 97 /\ b <= 102 THEN b - 87
    ELSE -1

\* whitespace that int() strips
IsSpace(b) == b \in {9, 10, 11, 12, 13, 32}

NoCk == -1000

\* int(cks.decode("ascii"), 16) on a 2-byte field, NoCk when it raises
ParseInt16(c) ==
    LET a == c[1]
        b == c[2]
    IN  IF a >= 128 \/ b >= 128 THEN NoCk
        ELSE IF HexVal(a) >= 0 /\ HexVal(b) >= 0 THEN 16 * HexVal(a) + HexVal(b)
        ELSE IF IsSpace(a) /\ HexVal(b) >= 0 THEN HexVal(b)
        ELSE IF HexVal(a) >= 0 /\ IsSpace(b) THEN HexVal(a)
        ELSE IF a = 43 /\ HexVal(b) >= 0 THEN HexVal(b)
        ELSE IF a = 45 /\ HexVal(b) >= 0 THEN 0 - HexVal(b)
        ELSE NoCk

\* try: recv_ck = int(...) except Exception: recv_ck = -1
recv_ck(c) == IF ParseInt16(c) = NoCk THEN -1 ELSE ParseInt16(c)

\* variant: any checksum field that parses is accepted
ok_unchecked(ci, c) == recv_ck(c) >= 0

\* ok = (recv_ck == calc)
ok(ci, c) == recv_ck(c) = calc_checksum(ci)

\* payload = bytes(frame[1:-1])
payload(fr) == SubSeq(fr, 2, Len(fr) - 1)

\* variant: the CR separator is added whether or not the payload ends with CR
Extended_alwaysCR(fm, p) == (fm \o p) \o <<CR>>

\* what a frame judged ok adds to full_message
Extended(fm, p) == IF EndsWithCR(p) THEN fm \o p ELSE (fm \o p) \o <<CR>>

\* ------------------------------------------------------------------------
\* Frame encoder of the Initiator
\* ------------------------------------------------------------------------
\* astm_message.replace("\r\n", "\r").replace("\n", "\r")
RECURSIVE ReplaceCRLF(_)
ReplaceCRLF(m) ==
    IF m = <<>> THEN <<>>
    ELSE IF Len(m) >= 2 /\ m[1] = CR /\ m[2] = LF
         THEN <<CR>> \o ReplaceCRLF(SubSeq(m, 3, Len(m)))
         ELSE <<m[1]>> \o ReplaceCRLF(Tail(m))

ReplaceLF(m) == [k \in 1..Len(m) |-> IF m[k] = LF THEN CR ELSE m[k]]

msg_norm(m) == ReplaceLF(ReplaceCRLF(m))

\* str.split("\r"): the pieces between separators, empty ones included
RECURSIVE SplitCR(_, _)
SplitCR(m, cur) ==
    IF m = <<>> THEN << cur >>
    ELSE IF Head(m) = CR THEN << cur >> \o SplitCR(Tail(m), <<>>)
         ELSE SplitCR(Tail(m), Append(cur, Head(m)))

\* variant: empty pieces are kept
lines_keepEmpty(m) == SplitCR(msg_norm(m), <<>>)

\* [line for line in msg_norm.split("\r") if line]
lines(m) == SelectSeq(SplitCR(msg_norm(m), <<>>), LAMBDA l : l # <<>>)

\* line.encode("ascii", errors="replace")
encode_ascii(l) == [k \in 1..Len(l) |-> IF l[k] < 128 THEN l[k] ELSE 63]

\* variant: the frame number is the 0-based index
frame_no_from0(idx) == idx % 8

\* frame_no = (idx + 1) % 8, idx counted from 0
frame_no(idx) == (idx + 1) % 8

\* b"0" or bytes([ord("0") + frame_no])
frame_char(idx) == IF frame_no(idx) = 0 THEN 48 ELSE 48 + frame_no(idx)

\* body = frame_char + line.encode(...) + b"\r"
body(idx, l) == (<< frame_char(idx) >> \o encode_ascii(l)) \o << CR >>

\* variant: ETX is left out of the sum
checksum_noETX(idx, l) == SumSeq(body(idx, l)) % 256

\* checksum = (sum(body) + ETX) & 0xFF
checksum(idx, l) == (SumSeq(body(idx, l)) + ETX) % 256

\* frame = STX + body + ETX + checksum_str + CR LF
frame_of(idx, l) ==
    ((<< STX >> \o body(idx, l)) \o << ETX >>) \o (checksum_str(checksum(idx, l)) \o << CR, LF >>)

build_frames(m) == [k \in 1..Len(lines(m)) |-> frame_of(k - 1, lines(m)[k])]

\* ------------------------------------------------------------------------
\* State
\* ------------------------------------------------------------------------
VARIABLES
    \* --- connection ---
    c2s,            \* bytes written by the analyzer side, not yet read by the server
    s2c,            \* bytes written by the server, not yet read by the analyzer side
    cClosed,        \* the analyzer side has closed its socket
    \* --- Responder (handle_client) ---
    rpc,            \* position: "loop", "frame_no", "body", "cks", "crlf", "done"
    full_message,   \* full_message
    frame,          \* frame
    checksum_input, \* checksum_input
    buf,            \* buf of the recv_until / read_exact call in progress
    cks,            \* cks
    elapsed,        \* time.time() - last_activity at the last evaluation
    endedBy,        \* which return / except path ended the session ("" while open)
    dumped,         \* arguments of the calls of dump_full_message, in order
    capture,        \* the bytes written to capture_fh, in order
    \* --- Initiator (main / send_astm_message) ---
    ipc,            \* position: "off", "enq", "enq_resp", "frame", "frame_resp",
                    \*           "eot", "sent", "aborted", "closed"
    astm_message,   \* astm_message
    frames,         \* frames
    i,              \* index of the frame being sent (1-based, as enumerate(start=1))
    \* --- observation ---
    wire,           \* every successful write, in order: <<"I" | "R", bytes>>
    verdicts,       \* one entry per frame the Responder judged: payload, ok, written
    enqSeen,        \* the Responder has read an ENQ
    lastEvent,      \* what the Responder's last step was
    sends,          \* writes made by the raw peer
    flipped,        \* -1, or the value a byte in flight was altered to
    \* --- server (main) ---
    session,        \* number of the connection handle_client is serving (from 1)
    waiting,        \* bytes written on the next connection, not yet accepted
    ended,          \* one record per session that was followed by another accept
    capture_fh,     \* main was started with --capture
    \* --- analyzer-side receiver (receive_astm_from_plugin) ---
    xpc,            \* position: "off", "wait_enq", "loop", "frame_no", "payload",
                    \*           "chk", "trailer", "returned", "raised"
    assembled,      \* assembled
    xpayload,       \* payload
    chk,            \* chk
    response,       \* the string receive_astm_from_plugin returns
    pClosed         \* the plugin side has closed its socket

connVars == << c2s, s2c, cClosed >>
respVars == << rpc, full_message, frame, checksum_input, buf, cks, elapsed, endedBy, dumped, capture >>
initVars == << ipc, astm_message, frames, i >>
obsVars  == << wire, verdicts, enqSeen, lastEvent >>
peerVars == << sends, flipped >>
srvVars  == << session, waiting, ended, capture_fh >>
rxVars   == << xpc, assembled, xpayload, chk, response, pClosed >>
extVars  == << srvVars, rxVars >>
vars == << connVars, respVars, initVars, obsVars, peerVars, extVars >>

\* one connection, no receiver
SrvInit ==
    /\ session = 1
    /\ waiting = <<>>
    /\ ended = <<>>
    /\ capture_fh = FALSE

RxOff ==
    /\ xpc = "off"
    /\ assembled = <<>>
    /\ xpayload = <<>>
    /\ chk = <<>>
    /\ response = <<>>
    /\ pClosed = FALSE

\* ------------------------------------------------------------------------
\* Responder: handle_client
\* ------------------------------------------------------------------------
RespInit ==
    /\ rpc = "loop"
    /\ full_message = <<>>
    /\ frame = <<>>
    /\ checksum_input = <<>>
    /\ buf = <<>>
    /\ cks = <<>>
    /\ elapsed = 0
    /\ endedBy = ""
    /\ dumped = <<>>
    /\ capture = <<>>
    /\ wire = <<>>
    /\ verdicts = <<>>
    /\ enqSeen = FALSE
    /\ lastEvent = "connected"

\* b"\n##### NEW MESSAGE #####\n" and b"\n##### END MESSAGE #####\n"
NEW_MESSAGE ==
    << 10, 35, 35, 35, 35, 35, 32, 78, 69, 87, 32, 77, 69, 83, 83, 65, 71, 69, 32,
       35, 35, 35, 35, 35, 10 >>
END_MESSAGE ==
    << 10, 35, 35, 35, 35, 35, 32, 69, 78, 68, 32, 77, 69, 83, 83, 65, 71, 69, 32,
       35, 35, 35, 35, 35, 10 >>

\* if capture_fh: capture_fh.write(marker); .write(full_message); .write(marker)
dump_to_capture(cap, fm) ==
    IF capture_fh THEN ((cap \o NEW_MESSAGE) \o fm) \o END_MESSAGE ELSE cap

\* if capture_fh: capture_fh.write(payload), or payload + b"\r"
capture_write(cap, p) ==
    IF capture_fh THEN (IF EndsWithCR(p) THEN cap \o p ELSE (cap \o p) \o << CR >>) ELSE cap

\* variant: a forced close hands over nothing
Finish_dropPartial(why, fm, cap) ==
    /\ rpc' = "done"
    /\ endedBy' = why
    /\ dumped' = Append(dumped, IF why = "eot" THEN fm ELSE <<>>)
    /\ capture' = dump_to_capture(cap, IF why = "eot" THEN fm ELSE <<>>)

\* variant: the except Exception handler closes without a dump
Finish_noDump(why, fm, cap) ==
    /\ rpc' = "done"
    /\ endedBy' = why
    /\ dumped' = IF why = "error" THEN dumped ELSE Append(dumped, fm)
    /\ capture' = IF why = "error" THEN cap ELSE dump_to_capture(cap, fm)

\* dump_full_message(logger, full_message, capture_fh); return  (finally: conn.close())
Finish(why, fm, cap) ==
    /\ rpc' = "done"
    /\ endedBy' = why
    /\ dumped' = Append(dumped, fm)
    /\ capture' = dump_to_capture(cap, fm)

\* a recv that returns one byte
Readable == c2s # <<>>
\* a recv that returns b""
AtEOF == c2s = <<>> /\ cClosed
\* a recv that blocks until the socket timeout
Silent == c2s = <<>> /\ ~cClosed

\* the idle check at the top of the loop passes
NotIdle == ~(elapsed > IDLE_TIMEOUT_S)

\* if time.time() - last_activity > IDLE_TIMEOUT_S: dump; return
IdleTimeout ==
    /\ rpc = "loop"
    /\ elapsed > IDLE_TIMEOUT_S
    /\ Finish("idle", full_message, capture)
    /\ lastEvent' = "idle"
    /\ UNCHANGED << connVars, full_message, frame, checksum_input, buf, cks, elapsed >>
    /\ UNCHANGED << initVars, wire, verdicts, enqSeen, peerVars >>
    /\ UNCHANGED extVars

\* variant: the recv at the top of the loop has no try / except of its own
RecvTimeout_uncaught ==
    /\ rpc = "loop"
    /\ NotIdle
    /\ Silent
    /\ Finish("socket_timeout", full_message, capture)
    /\ lastEvent' = "read_timeout"
    /\ UNCHANGED << connVars, full_message, frame, checksum_input, buf, cks, elapsed >>
    /\ UNCHANGED << initVars, wire, verdicts, enqSeen, peerVars >>
    /\ UNCHANGED extVars

\* variant: last_activity is refreshed when the recv times out
RecvTimeout_refresh ==
    /\ rpc = "loop"
    /\ NotIdle
    /\ Silent
    /\ elapsed' = 0
    /\ lastEvent' = "read_timeout"
    /\ UNCHANGED << connVars, rpc, full_message, frame, checksum_input, buf, cks, endedBy, dumped, capture >>
    /\ UNCHANGED << initVars, wire, verdicts, enqSeen, peerVars >>
    /\ UNCHANGED extVars

\* b = conn.recv(1) raises socket.timeout: continue
RecvTimeout ==
    /\ rpc = "loop"
    /\ NotIdle
    /\ Silent
    /\ elapsed' = elapsed + READ_TIMEOUT_S
    /\ lastEvent' = "read_timeout"
    /\ UNCHANGED << connVars, rpc, full_message, frame, checksum_input, buf, cks, endedBy, dumped, capture >>
    /\ UNCHANGED << initVars, wire, verdicts, enqSeen, peerVars >>
    /\ UNCHANGED extVars

\* if not b: dump; return
RecvClosed ==
    /\ rpc = "loop"
    /\ NotIdle
    /\ AtEOF
    /\ Finish("peer_closed", full_message, capture)
    /\ lastEvent' = "closed"
    /\ UNCHANGED << connVars, full_message, frame, checksum_input, buf, cks, elapsed >>
    /\ UNCHANGED << initVars, wire, verdicts, enqSeen, peerVars >>
    /\ UNCHANGED extVars

\* conn.sendall(bytes([b])): the write succeeds, or raises when the peer is gone
\* (except Exception: dump).  fm is full_message at the time of the write.
SendAll(b, fm, cap) ==
    \/ /\ s2c' = Append(s2c, b)
       /\ wire' = Append(wire, << "R", << b >> >>)
       /\ rpc' = "loop"
       /\ capture' = cap
       /\ UNCHANGED << endedBy, dumped >>
    \/ /\ cClosed
       /\ Finish("error", fm, cap)
       /\ UNCHANGED << s2c, wire >>

\* variant: only the first ENQ of a session is answered
RecvENQ_once ==
    /\ rpc = "loop"
    /\ NotIdle
    /\ Readable
    /\ Head(c2s) = ENQ
    /\ c2s' = Tail(c2s)
    /\ elapsed' = 0
    /\ IF enqSeen
       THEN UNCHANGED << s2c, wire, rpc, endedBy, dumped, capture >>
       ELSE SendAll(ACK, full_message, capture)
    /\ enqSeen' = TRUE
    /\ lastEvent' = "enq"
    /\ UNCHANGED << cClosed, full_message, frame, checksum_input, buf, cks >>
    /\ UNCHANGED << initVars, verdicts, peerVars >>
    /\ UNCHANGED extVars

\* if byte == ENQ: conn.sendall(bytes([ACK])); continue
RecvENQ ==
    /\ rpc = "loop"
    /\ NotIdle
    /\ Readable
    /\ Head(c2s) = ENQ
    /\ c2s' = Tail(c2s)
    /\ elapsed' = 0
    /\ SendAll(ACK, full_message, capture)
    /\ enqSeen' = TRUE
    /\ lastEvent' = "enq"
    /\ UNCHANGED << cClosed, full_message, frame, checksum_input, buf, cks >>
    /\ UNCHANGED << initVars, verdicts, peerVars >>
    /\ UNCHANGED extVars

\* if byte == EOT: dump; return
RecvEOT ==
    /\ rpc = "loop"
    /\ NotIdle
    /\ Readable
    /\ Head(c2s) = EOT
    /\ c2s' = Tail(c2s)
    /\ elapsed' = 0
    /\ Finish("eot", full_message, capture)
    /\ lastEvent' = "eot"
    /\ UNCHANGED << s2c, cClosed, full_message, frame, checksum_input, buf, cks >>
    /\ UNCHANGED << initVars, wire, verdicts, enqSeen, peerVars >>
    /\ UNCHANGED extVars

\* if byte == STX: frame = bytearray(); checksum_input = bytearray(); ...
RecvSTX ==
    /\ rpc = "loop"
    /\ NotIdle
    /\ Readable
    /\ Head(c2s) = STX
    /\ c2s' = Tail(c2s)
    /\ elapsed' = 0
    /\ rpc' = "frame_no"
    /\ frame' = <<>>
    /\ checksum_input' = <<>>
    /\ buf' = <<>>
    /\ cks' = <<>>
    /\ lastEvent' = "stx"
    /\ UNCHANGED << s2c, cClosed, full_message, endedBy, dumped, capture >>
    /\ UNCHANGED << initVars, wire, verdicts, enqSeen, peerVars >>
    /\ UNCHANGED extVars

\* variant: a NAK from the peer ends the session
RecvOther_nakEnds ==
    /\ rpc = "loop"
    /\ NotIdle
    /\ Readable
    /\ Head(c2s) \notin {ENQ, EOT, STX}
    /\ c2s' = Tail(c2s)
    /\ elapsed' = 0
    /\ lastEvent' = "ignored"
    /\ IF Head(c2s) = NAK
       THEN Finish("eot", full_message, capture)
       ELSE UNCHANGED << rpc, endedBy, dumped, capture >>
    /\ UNCHANGED << s2c, cClosed, full_message, frame, checksum_input, buf, cks >>
    /\ UNCHANGED << initVars, wire, verdicts, enqSeen, peerVars >>
    /\ UNCHANGED extVars

\* ACK, NAK and any other byte: logged, the loop continues
RecvOther ==
    /\ rpc = "loop"
    /\ NotIdle
    /\ Readable
    /\ Head(c2s) \notin {ENQ, EOT, STX}
    /\ c2s' = Tail(c2s)
    /\ elapsed' = 0
    /\ lastEvent' = "ignored"
    /\ UNCHANGED << s2c, cClosed, rpc, full_message, frame, checksum_input, buf, cks, endedBy, dumped, capture >>
    /\ UNCHANGED << initVars, wire, verdicts, enqSeen, peerVars >>
    /\ UNCHANGED extVars

\* frame_no_b = conn.recv(1); frame.extend(..); checksum_input.extend(..)
RecvFrameNo ==
    /\ rpc = "frame_no"
    /\ Readable
    /\ c2s' = Tail(c2s)
    /\ frame' = Append(frame, Head(c2s))
    /\ checksum_input' = Append(checksum_input, Head(c2s))
    /\ rpc' = "body"
    /\ lastEvent' = "frame_no"
    /\ UNCHANGED << s2c, cClosed, full_message, buf, cks, elapsed, endedBy, dumped, capture >>
    /\ UNCHANGED << initVars, wire, verdicts, enqSeen, peerVars >>
    /\ UNCHANGED extVars

\* variant: an over-long body is dropped and the loop goes on
RecvUntil_resync ==
    /\ rpc = "body"
    /\ Readable
    /\ c2s' = Tail(c2s)
    /\ LET data == Append(buf, Head(c2s))
       IN  IF Head(c2s) \in {ETX, ETB} \/ Len(data) >= max_len
           THEN IF Last(data) \notin {ETX, ETB}
                THEN /\ rpc' = "loop"
                     /\ buf' = <<>>
                     /\ lastEvent' = "frame_aborted"
                     /\ UNCHANGED << frame, checksum_input, endedBy, dumped, capture >>
                ELSE /\ frame' = frame \o data
                     /\ checksum_input' = checksum_input \o data
                     /\ buf' = <<>>
                     /\ rpc' = "cks"
                     /\ lastEvent' = "body"
                     /\ UNCHANGED << endedBy, dumped, capture >>
           ELSE /\ buf' = data
                /\ lastEvent' = "body_byte"
                /\ UNCHANGED << rpc, frame, checksum_input, endedBy, dumped, capture >>
    /\ UNCHANGED << s2c, cClosed, full_message, cks, elapsed >>
    /\ UNCHANGED << initVars, wire, verdicts, enqSeen, peerVars >>
    /\ UNCHANGED extVars

\* data = recv_until(conn, {ETX, ETB}): one pass of its loop that reads a byte
RecvUntil ==
    /\ rpc = "body"
    /\ Readable
    /\ c2s' = Tail(c2s)
    /\ LET data == Append(buf, Head(c2s))
       IN  IF Head(c2s) \in {ETX, ETB} \/ Len(data) >= max_len
           THEN \* recv_until returns data
                IF Last(data) \notin {ETX, ETB}
                THEN /\ Finish("no_etx", full_message, capture)
                     /\ lastEvent' = "frame_aborted"
                     /\ UNCHANGED << frame, checksum_input, buf >>
                ELSE /\ frame' = frame \o data
                     /\ checksum_input' = checksum_input \o data
                     /\ buf' = <<>>
                     /\ rpc' = "cks"
                     /\ lastEvent' = "body"
                     /\ UNCHANGED << endedBy, dumped, capture >>
           ELSE /\ buf' = data
                /\ lastEvent' = "body_byte"
                /\ UNCHANGED << rpc, frame, checksum_input, endedBy, dumped, capture >>
    /\ UNCHANGED << s2c, cClosed, full_message, cks, elapsed >>
    /\ UNCHANGED << initVars, wire, verdicts, enqSeen, peerVars >>
    /\ UNCHANGED extVars

\* variant: the trailer is not compared with CR LF
TrailerOK_any(crlf) == TRUE

\* crlf[0] == CR and crlf[1] == LF
TrailerOK(crlf) == crlf[1] = CR /\ crlf[2] = LF

\* variant: only the payload of a frame judged ok is written to the capture file
JudgeFrame_captureAcked ==
    LET good == ok(checksum_input, cks)
        fm   == IF good THEN Extended(full_message, payload(frame)) ELSE full_message
        cap  == IF good THEN capture_write(capture, payload(frame)) ELSE capture
    IN  /\ full_message' = fm
        /\ SendAll(IF good THEN ACK ELSE NAK, fm, cap)
        /\ verdicts' = Append(verdicts, [payload |-> payload(frame), ok |-> good,
                                         written |-> (rpc' = "loop")])
        /\ lastEvent' = IF good THEN "frame_ok" ELSE "frame_bad"

\* variant: a frame is accepted only under the frame number that is due
JudgeFrame_sequenced ==
    LET due  == 48 + ((Len(SelectSeq(verdicts, LAMBDA v : v.ok)) + 1) % 8)
        good == ok(checksum_input, cks) /\ frame[1] = due
        fm   == IF good THEN Extended(full_message, payload(frame)) ELSE full_message
    IN  /\ full_message' = fm
        /\ SendAll(IF good THEN ACK ELSE NAK, fm, capture_write(capture, payload(frame)))
        /\ verdicts' = Append(verdicts, [payload |-> payload(frame), ok |-> good,
                                         written |-> (rpc' = "loop")])
        /\ lastEvent' = IF good THEN "frame_ok" ELSE "frame_bad"

\* variant: the payload is appended before the checksum is looked at
JudgeFrame_appendAll ==
    LET good == ok(checksum_input, cks)
        fm   == Extended(full_message, payload(frame))
    IN  /\ full_message' = fm
        /\ SendAll(IF good THEN ACK ELSE NAK, fm, capture_write(capture, payload(frame)))
        /\ verdicts' = Append(verdicts, [payload |-> payload(frame), ok |-> good,
                                         written |-> (rpc' = "loop")])
        /\ lastEvent' = IF good THEN "frame_ok" ELSE "frame_bad"

\* the verdict on a structurally complete frame: capture, append, ACK / NAK
JudgeFrame ==
    LET good == ok(checksum_input, cks)
        fm   == IF good THEN Extended(full_message, payload(frame)) ELSE full_message
    IN  /\ full_message' = fm
        /\ SendAll(IF good THEN ACK ELSE NAK, fm, capture_write(capture, payload(frame)))
        /\ verdicts' = Append(verdicts, [payload |-> payload(frame), ok |-> good,
                                         written |-> (rpc' = "loop")])
        /\ lastEvent' = IF good THEN "frame_ok" ELSE "frame_bad"

\* cks = read_exact(conn, 2) and crlf = read_exact(conn, 2): one recv that
\* returns a byte; the second trailer byte completes the frame
ReadExact ==
    /\ rpc \in {"cks", "crlf"}
    /\ Readable
    /\ c2s' = Tail(c2s)
    /\ LET got == Append(buf, Head(c2s))
       IN  IF Len(got) < 2
           THEN /\ buf' = got
                /\ lastEvent' = "trailer_byte"
                /\ UNCHANGED << s2c, rpc, full_message, cks, endedBy, dumped, capture, wire, verdicts >>
           ELSE IF rpc = "cks"
           THEN /\ cks' = got
                /\ buf' = <<>>
                /\ rpc' = "crlf"
                /\ lastEvent' = "cks"
                /\ UNCHANGED << s2c, full_message, endedBy, dumped, capture, wire, verdicts >>
           ELSE IF ~TrailerOK(got)
           THEN /\ Finish("no_crlf", full_message, capture)
                /\ lastEvent' = "frame_aborted"
                /\ UNCHANGED << s2c, full_message, buf, cks, wire, verdicts >>
           ELSE /\ JudgeFrame
                /\ UNCHANGED << buf, cks >>
    /\ UNCHANGED << cClosed, frame, checksum_input, elapsed >>
    /\ UNCHANGED << initVars, enqSeen, peerVars >>
    /\ UNCHANGED extVars

\* a read inside a frame returns b"": "Frame aborted", dump, return
FrameClosed ==
    /\ rpc \in {"frame_no", "body", "cks", "crlf"}
    /\ AtEOF
    /\ Finish(CASE rpc = "frame_no" -> "no_frame_number"
                [] rpc = "body" -> "no_etx"
                [] rpc = "cks" -> "no_checksum"
                [] rpc = "crlf" -> "no_crlf", full_message, capture)
    /\ lastEvent' = "frame_aborted"
    /\ UNCHANGED << connVars, full_message, frame, checksum_input, buf, cks, elapsed >>
    /\ UNCHANGED << initVars, wire, verdicts, enqSeen, peerVars >>
    /\ UNCHANGED extVars

\* a read inside a frame raises socket.timeout: except socket.timeout: dump
FrameTimeout ==
    /\ rpc \in {"frame_no", "body", "cks", "crlf"}
    /\ Silent
    /\ Finish("socket_timeout", full_message, capture)
    /\ lastEvent' = "read_timeout"
    /\ UNCHANGED << connVars, full_message, frame, checksum_input, buf, cks, elapsed >>
    /\ UNCHANGED << initVars, wire, verdicts, enqSeen, peerVars >>
    /\ UNCHANGED extVars

\* a recv raises (connection reset by the peer): except Exception: dump
RecvError ==
    /\ rpc # "done"
    /\ cClosed
    /\ rpc = "loop" => NotIdle
    /\ Finish("error", full_message, capture)
    /\ lastEvent' = "error"
    /\ UNCHANGED << connVars, full_message, frame, checksum_input, buf, cks, elapsed >>
    /\ UNCHANGED << initVars, wire, verdicts, enqSeen, peerVars >>
    /\ UNCHANGED extVars

Responder ==
    \/ IdleTimeout
    \/ RecvTimeout
    \/ RecvClosed
    \/ RecvENQ
    \/ RecvEOT
    \/ RecvSTX
    \/ RecvOther
    \/ RecvFrameNo
    \/ RecvUntil
    \/ ReadExact
    \/ FrameClosed
    \/ FrameTimeout
    \/ RecvError

\* ------------------------------------------------------------------------
\* A raw peer: any program on the analyzer side of the connection.  It
\* writes byte strings of its choice and may close at any time.
\* ------------------------------------------------------------------------
\* a frame as a peer may write it: any number byte, payload, terminator,
\* checksum field and trailer
RawFrame(no, text, term, ck, trailer) ==
    ((<< STX, no >> \o text) \o << term >>) \o (ck \o trailer)

\* the checksum field that matches, and one that does not
GoodCk(no, text, term) == checksum_str(calc_checksum((<< no >> \o text) \o << term >>))
BadCk(no, text, term) == checksum_str((calc_checksum((<< no >> \o text) \o << term >>) + 1) % 256)

RecA == << 65, CR >>
RecB == << 66 >>

FrameA == RawFrame(49, RecA, ETX, GoodCk(49, RecA, ETX), << CR, LF >>)
FrameB == RawFrame(50, RecB, ETB, GoodCk(50, RecB, ETB), << CR, LF >>)
FrameABadCk == RawFrame(49, RecA, ETX, BadCk(49, RecA, ETX), << CR, LF >>)
FrameABadTrailer == RawFrame(49, RecA, ETX, GoodCk(49, RecA, ETX), << LF, CR >>)
FrameABadBoth == RawFrame(49, RecA, ETX, BadCk(49, RecA, ETX), << LF, CR >>)
\* the record of FrameA under the frame number '3' and under the byte 'x'
FrameA3 == RawFrame(51, RecA, ETX, GoodCk(51, RecA, ETX), << CR, LF >>)
FrameAX == RawFrame(120, RecA, ETX, GoodCk(120, RecA, ETX), << CR, LF >>)
FrameANoEtx == << STX, 49 >> \o RecA
FrameAHalfCk == SubSeq(FrameA, 1, 6)
FrameTooLong == << STX, 49 >> \o [k \in 1..max_len |-> 65]

PeerChunks ==
    { << ENQ >>, << EOT >>, << ACK >>, << NAK >>, << STX >>, << LF >>,
      FrameA, FrameB, FrameABadCk, FrameABadTrailer, FrameABadBoth,
      FrameANoEtx, FrameAHalfCk, FrameTooLong, FrameA3, FrameAX }

PeerSend ==
    /\ ipc = "off"
    /\ ~cClosed
    /\ rpc # "done"
    /\ c2s = <<>>
    /\ sends < MaxSends
    /\ \E chunk \in PeerChunks :
          /\ c2s' = chunk
          /\ wire' = Append(wire, << "I", chunk >>)
    /\ sends' = sends + 1
    /\ UNCHANGED << s2c, cClosed, respVars, initVars, verdicts, enqSeen, lastEvent, flipped >>
    /\ UNCHANGED extVars

PeerClose ==
    /\ ipc = "off"
    /\ ~cClosed
    /\ rpc # "done"
    /\ cClosed' = TRUE
    /\ UNCHANGED << c2s, s2c, respVars, initVars, obsVars, peerVars >>
    /\ UNCHANGED extVars

InitPeer ==
    /\ RespInit
    /\ c2s = <<>>
    /\ s2c = <<>>
    /\ cClosed = FALSE
    /\ ipc = "off"
    /\ astm_message = <<>>
    /\ frames = <<>>
    /\ i = 0
    /\ sends = 0
    /\ flipped = -1
    /\ SrvInit
    /\ RxOff

NextPeer == PeerSend \/ PeerClose \/ Responder

SpecPeer == InitPeer /\ [][NextPeer]_vars

\* ------------------------------------------------------------------------
\* One Responder session of a server started with or without --capture,
\* against the raw peer
\* ------------------------------------------------------------------------
InitCapture ==
    /\ RespInit
    /\ c2s = <<>>
    /\ s2c = <<>>
    /\ cClosed = FALSE
    /\ ipc = "off"
    /\ astm_message = <<>>
    /\ frames = <<>>
    /\ i = 0
    /\ sends = 0
    /\ flipped = -1
    /\ session = 1
    /\ waiting = <<>>
    /\ ended = <<>>
    /\ capture_fh \in BOOLEAN
    /\ RxOff

SpecCapture == InitCapture /\ [][NextPeer]_vars

\* ------------------------------------------------------------------------
\* Initiator: main / send_astm_message
\* ------------------------------------------------------------------------
\* the server has closed the connection (finally: conn.close())
sClosed == rpc = "done" \/ pClosed

\* sock.sendall(data) of the Initiator: the write succeeds, or raises when
\* the server is gone (except Exception in main)
ISendAll(data, next) ==
    \/ /\ c2s' = c2s \o data
       /\ wire' = Append(wire, << "I", data >>)
       /\ ipc' = next
    \/ /\ sClosed
       /\ ipc' = "aborted"
       /\ UNCHANGED << c2s, wire >>

\* sock.sendall(bytes([ENQ]))
SendENQ ==
    /\ ipc = "enq"
    /\ ISendAll(<< ENQ >>, "enq_resp")
    /\ UNCHANGED << s2c, cClosed, respVars, astm_message, frames, i >>
    /\ UNCHANGED << verdicts, enqSeen, lastEvent, peerVars >>
    /\ UNCHANGED extVars

\* resp = sock.recv(1) after ENQ; frames = build_frames(astm_message)
RecvEnqResp ==
    /\ ipc = "enq_resp"
    /\ s2c # <<>>
    /\ s2c' = Tail(s2c)
    /\ IF Head(s2c) = ACK
       THEN /\ frames' = build_frames(astm_message)
            /\ i' = 1
            /\ ipc' = IF build_frames(astm_message) = <<>> THEN "eot" ELSE "frame"
       ELSE /\ ipc' = "aborted"
            /\ UNCHANGED << frames, i >>
    /\ UNCHANGED << c2s, cClosed, respVars, astm_message, obsVars, peerVars >>
    /\ UNCHANGED extVars

\* variant: the next frame is written without reading the answer
SendFrame_pipelined ==
    /\ ipc = "frame"
    /\ ISendAll(frames[i], IF i + 1 > Len(frames) THEN "eot" ELSE "frame")
    /\ i' = i + 1
    /\ UNCHANGED << s2c, cClosed, respVars, astm_message, frames >>
    /\ UNCHANGED << verdicts, enqSeen, lastEvent, peerVars >>
    /\ UNCHANGED extVars

\* sock.sendall(frame)
SendFrame ==
    /\ ipc = "frame"
    /\ ISendAll(frames[i], "frame_resp")
    /\ UNCHANGED << s2c, cClosed, respVars, astm_message, frames, i >>
    /\ UNCHANGED << verdicts, enqSeen, lastEvent, peerVars >>
    /\ UNCHANGED extVars

\* variant: a NAKed frame is written again
RecvFrameResp_retry ==
    /\ ipc = "frame_resp"
    /\ s2c # <<>>
    /\ s2c' = Tail(s2c)
    /\ IF Head(s2c) = ACK
       THEN /\ i' = i + 1
            /\ ipc' = IF i + 1 > Len(frames) THEN "eot" ELSE "frame"
       ELSE /\ ipc' = IF Head(s2c) = NAK THEN "frame" ELSE "aborted"
            /\ UNCHANGED i
    /\ UNCHANGED << c2s, cClosed, respVars, astm_message, frames, obsVars, peerVars >>
    /\ UNCHANGED extVars

\* r = sock.recv(1) after a frame: ACK goes on, NAK or anything else raises
RecvFrameResp ==
    /\ ipc = "frame_resp"
    /\ s2c # <<>>
    /\ s2c' = Tail(s2c)
    /\ IF Head(s2c) = ACK
       THEN /\ i' = i + 1
            /\ ipc' = IF i + 1 > Len(frames) THEN "eot" ELSE "frame"
       ELSE /\ ipc' = "aborted"
            /\ UNCHANGED i
    /\ UNCHANGED << c2s, cClosed, respVars, astm_message, frames, obsVars, peerVars >>
    /\ UNCHANGED extVars

\* a recv of the Initiator returns b"" (RuntimeError) or raises socket.timeout
RecvNothing ==
    /\ ipc \in {"enq_resp", "frame_resp"}
    /\ s2c = <<>>
    /\ ipc' = "aborted"
    /\ UNCHANGED << connVars, respVars, astm_message, frames, i, obsVars, peerVars >>
    /\ UNCHANGED extVars

\* sock.sendall(bytes([EOT]))
SendEOT ==
    /\ ipc = "eot"
    /\ ISendAll(<< EOT >>, "sent")
    /\ UNCHANGED << s2c, cClosed, respVars, astm_message, frames, i >>
    /\ UNCHANGED << verdicts, enqSeen, lastEvent, peerVars >>
    /\ UNCHANGED extVars

\* leaving "with socket.create_connection(...) as sock" closes the socket
CloseSocket ==
    /\ ipc \in {"sent", "aborted"}
    /\ ipc' = "closed"
    /\ cClosed' = TRUE
    /\ UNCHANGED << c2s, s2c, respVars, astm_message, frames, i, obsVars, peerVars >>
    /\ UNCHANGED extVars

Initiator ==
    \/ SendENQ
    \/ RecvEnqResp
    \/ SendFrame
    \/ RecvFrameResp
    \/ RecvNothing
    \/ SendEOT
    \/ CloseSocket

\* ------------------------------------------------------------------------
\* The channel may alter one byte of a frame in flight (one bit flipped)
\* ------------------------------------------------------------------------
RECURSIVE Pow2(_)
Pow2(n) == IF n = 0 THEN 1 ELSE 2 * Pow2(n - 1)

\* byte b with bit k flipped
FlipBit(b, k) == IF (b \div Pow2(k)) % 2 = 1 THEN b - Pow2(k) ELSE b + Pow2(k)

\* byte string s with bit k of its p-th byte flipped
FlipAt(s, p, k) == [s EXCEPT ![p] = FlipBit(s[p], k)]

Corrupt ==
    /\ ipc = "frame_resp"
    /\ flipped = -1
    /\ c2s = frames[i]
    /\ \E p \in 1..Len(c2s), k \in 0..7 :
          /\ c2s' = FlipAt(c2s, p, k)
          /\ flipped' = FlipBit(c2s[p], k)
    /\ UNCHANGED << s2c, cClosed, respVars, initVars, obsVars, sends >>
    /\ UNCHANGED extVars

\* ------------------------------------------------------------------------
\* The whole system: one Initiator session against one Responder session
\* ------------------------------------------------------------------------
MaxMsgLen == 3

MsgAlphabet == {65, 66, CR, LF}

RECURSIVE SeqsUpTo(_, _)
SeqsUpTo(S, n) ==
    IF n = 0 THEN { <<>> }
    ELSE LET shorter == SeqsUpTo(S, n - 1)
         IN  shorter \cup { Append(q, x) : q \in { t \in shorter : Len(t) = n - 1 }, x \in S }

Messages == SeqsUpTo(MsgAlphabet, MaxMsgLen)

Init ==
    /\ RespInit
    /\ c2s = <<>>
    /\ s2c = <<>>
    /\ cClosed = FALSE
    /\ ipc = "enq"
    /\ astm_message \in Messages
    /\ frames = <<>>
    /\ i = 0
    /\ sends = 0
    /\ flipped = -1
    /\ SrvInit
    /\ RxOff

Next == Initiator \/ Corrupt \/ Responder

Spec == Init /\ [][Next]_vars

\* ------------------------------------------------------------------------
\* The codec alone: one frame of build_frames, as encoded or with one bit of
\* one payload byte flipped, is written to a Responder
\* ------------------------------------------------------------------------
MaxRecLen == 2

MaxRecords == 9

\* 'C' and '7' are one bit away from ETX and ETB; 233 is not ASCII
RecAlphabet == {67, 55, 233}

Records == SeqsUpTo(RecAlphabet, MaxRecLen) \ { <<>> }

\* n - 1 records "C" and then record r, each followed by CR
RECURSIVE Padded(_, _)
Padded(n, r) == IF n = 1 THEN Append(r, CR) ELSE << 67, CR >> \o Padded(n - 1, r)

CodecMessages == { Padded(n, r) : n \in 1..MaxRecords, r \in Records }

\* positions of the payload bytes in an encoded frame:
\* STX, number, payload .., ETX, 2 checksum bytes, CR, LF
PayloadPositions(f) == 3..(Len(f) - 5)

CodecSend ==
    /\ ipc = "off"
    /\ sends = 0
    /\ \E k \in 1..Len(frames) :
          /\ i' = k
          /\ c2s' = frames[k]
          /\ wire' = Append(wire, << "I", frames[k] >>)
    /\ sends' = 1
    /\ UNCHANGED << s2c, cClosed, respVars, ipc, astm_message, frames >>
    /\ UNCHANGED << verdicts, enqSeen, lastEvent, flipped >>
    /\ UNCHANGED extVars

CodecSendFlipped ==
    /\ ipc = "off"
    /\ sends = 0
    /\ \E k \in 1..Len(frames) :
       \E p \in PayloadPositions(frames[k]), b \in 0..7 :
          /\ i' = k
          /\ c2s' = FlipAt(frames[k], p, b)
          /\ wire' = Append(wire, << "I", FlipAt(frames[k], p, b) >>)
          /\ flipped' = FlipBit(frames[k][p], b)
    /\ sends' = 1
    /\ UNCHANGED << s2c, cClosed, respVars, ipc, astm_message, frames >>
    /\ UNCHANGED << verdicts, enqSeen, lastEvent >>
    /\ UNCHANGED extVars

InitCodec ==
    /\ RespInit
    /\ c2s = <<>>
    /\ s2c = <<>>
    /\ cClosed = FALSE
    /\ ipc = "off"
    /\ astm_message \in CodecMessages
    /\ frames = build_frames(astm_message)
    /\ i = 0
    /\ sends = 0
    /\ flipped = -1
    /\ SrvInit
    /\ RxOff

\* the Responder steps a single frame can take
NextCodec ==
    \/ CodecSend
    \/ CodecSendFlipped
    \/ RecvSTX
    \/ RecvFrameNo
    \/ RecvUntil
    \/ ReadExact

SpecCodec == InitCodec /\ [][NextCodec]_vars

\* ------------------------------------------------------------------------
\* The Initiator against a peer that answers each wait with any byte, or
\* closes (main with --no-response)
\* ------------------------------------------------------------------------
AnswerBytes == {ACK, NAK, ENQ, EOT, 65}

\* the peer writes one byte while send_astm_message waits in sock.recv(1)
PluginAnswer ==
    /\ ipc \in {"enq_resp", "frame_resp"}
    /\ ~pClosed
    /\ s2c = <<>>
    /\ \E b \in AnswerBytes :
          /\ s2c' = << b >>
          /\ wire' = Append(wire, << "R", << b >> >>)
    /\ UNCHANGED << c2s, cClosed, respVars, initVars, verdicts, enqSeen, lastEvent, peerVars >>
    /\ UNCHANGED extVars

\* the peer closes its socket
PluginClose ==
    /\ ipc \notin {"off", "closed"}
    /\ ~pClosed
    /\ pClosed' = TRUE
    /\ UNCHANGED << connVars, respVars, initVars, obsVars, peerVars >>
    /\ UNCHANGED << srvVars, xpc, assembled, xpayload, chk, response >>

InitAnswers ==
    /\ rpc = "off"
    /\ full_message = <<>>
    /\ frame = <<>>
    /\ checksum_input = <<>>
    /\ buf = <<>>
    /\ cks = <<>>
    /\ elapsed = 0
    /\ endedBy = ""
    /\ dumped = <<>>
    /\ capture = <<>>
    /\ wire = <<>>
    /\ verdicts = <<>>
    /\ enqSeen = FALSE
    /\ lastEvent = "connected"
    /\ c2s = <<>>
    /\ s2c = <<>>
    /\ cClosed = FALSE
    /\ ipc = "enq"
    /\ astm_message \in Messages
    /\ frames = <<>>
    /\ i = 0
    /\ sends = 0
    /\ flipped = -1
    /\ SrvInit
    /\ RxOff

NextAnswers == Initiator \/ PluginAnswer \/ PluginClose

SpecAnswers == InitAnswers /\ [][NextAnswers]_vars

\* ------------------------------------------------------------------------
\* build_frames alone, applied to one logical message after another
\* ------------------------------------------------------------------------
MaxMessages == 2

\* logical messages of 1..MaxRecords one-byte records
FrameMessages == { Padded(n, << c >>) : n \in 1..MaxRecords, c \in {67, 55} }

\* each frame as one write
AsWrites(fs) == [k \in 1..Len(fs) |-> << "I", fs[k] >>]

\* variant: the frame counter runs on from the frames framed before
FrameMessage_counterKept ==
    /\ ipc = "framing"
    /\ LET ls == lines(astm_message)
           fs == [k \in 1..Len(ls) |-> frame_of(Len(wire) + k - 1, ls[k])]
       IN  /\ frames' = fs
           /\ wire' = wire \o AsWrites(fs)
    /\ i' = Len(wire)
    /\ sends' = sends + 1
    /\ ipc' = "framed"
    /\ UNCHANGED << connVars, respVars, astm_message, verdicts, enqSeen, lastEvent, flipped >>
    /\ UNCHANGED extVars

\* frames = build_frames(astm_message); i is the number of frames framed before
FrameMessage ==
    /\ ipc = "framing"
    /\ frames' = build_frames(astm_message)
    /\ wire' = wire \o AsWrites(build_frames(astm_message))
    /\ i' = Len(wire)
    /\ sends' = sends + 1
    /\ ipc' = "framed"
    /\ UNCHANGED << connVars, respVars, astm_message, verdicts, enqSeen, lastEvent, flipped >>
    /\ UNCHANGED extVars

\* the caller passes the next logical message
NextMessage ==
    /\ ipc = "framed"
    /\ sends < MaxMessages
    /\ astm_message' \in FrameMessages
    /\ ipc' = "framing"
    /\ UNCHANGED << connVars, respVars, frames, i, obsVars, peerVars >>
    /\ UNCHANGED extVars

InitFrames ==
    /\ rpc = "off"
    /\ full_message = <<>>
    /\ frame = <<>>
    /\ checksum_input = <<>>
    /\ buf = <<>>
    /\ cks = <<>>
    /\ elapsed = 0
    /\ endedBy = ""
    /\ dumped = <<>>
    /\ capture = <<>>
    /\ wire = <<>>
    /\ verdicts = <<>>
    /\ enqSeen = FALSE
    /\ lastEvent = "connected"
    /\ c2s = <<>>
    /\ s2c = <<>>
    /\ cClosed = FALSE
    /\ ipc = "framing"
    /\ astm_message \in FrameMessages
    /\ frames = <<>>
    /\ i = 0
    /\ sends = 0
    /\ flipped = -1
    /\ SrvInit
    /\ RxOff

NextFrames == FrameMessage \/ NextMessage

SpecFrames == InitFrames /\ [][NextFrames]_vars

\* ------------------------------------------------------------------------
\* The server: main accepts one connection after another and runs
\* handle_client on each; a later analyzer may connect and write while an
\* earlier session is being served (s.listen(5))
\* ------------------------------------------------------------------------
MaxConns == 2

ServerChunks == { << ENQ >>, << EOT >>, << NAK >>, FrameA, FrameAHalfCk }

\* what is kept of a session when the next connection is accepted
SessionRecord ==
    [ why |-> endedBy, msg |-> full_message, pending |-> waiting, verdicts |-> verdicts ]

\* conn, addr = s.accept(); handle_client(conn, addr, logger, capture_fh):
\* fresh locals, the same logger and capture file
AcceptNext ==
    /\ ended' = Append(ended, SessionRecord)
    /\ session' = session + 1
    /\ c2s' = waiting
    /\ waiting' = <<>>
    /\ s2c' = <<>>
    /\ cClosed' = FALSE
    /\ rpc' = "loop"
    /\ full_message' = <<>>
    /\ frame' = <<>>
    /\ checksum_input' = <<>>
    /\ buf' = <<>>
    /\ cks' = <<>>
    /\ elapsed' = 0
    /\ endedBy' = ""
    /\ wire' = IF waiting = <<>> THEN <<>> ELSE << << "I", waiting >> >>
    /\ verdicts' = <<>>
    /\ enqSeen' = FALSE
    /\ lastEvent' = "connected"
    /\ UNCHANGED << dumped, capture, capture_fh, initVars, peerVars, rxVars >>

\* variant: a connection is accepted while the session before it is running
Accept_concurrent ==
    /\ session < MaxConns
    /\ AcceptNext

\* the while True loop of main: accept is reached when handle_client returns
Accept ==
    /\ rpc = "done"
    /\ session < MaxConns
    /\ AcceptNext

\* the analyzer of the connection being served writes
ConnSend ==
    /\ ~cClosed
    /\ rpc # "done"
    /\ c2s = <<>>
    /\ sends < MaxSends
    /\ \E chunk \in ServerChunks :
          /\ c2s' = chunk
          /\ wire' = Append(wire, << "I", chunk >>)
    /\ sends' = sends + 1
    /\ UNCHANGED << s2c, cClosed, respVars, initVars, verdicts, enqSeen, lastEvent, flipped >>
    /\ UNCHANGED extVars

\* the next analyzer has connected and writes while the session before it is open
WaitingSend ==
    /\ session < MaxConns
    /\ rpc # "done"
    /\ waiting = <<>>
    /\ sends < MaxSends
    /\ \E chunk \in ServerChunks : waiting' = chunk
    /\ sends' = sends + 1
    /\ UNCHANGED << connVars, respVars, initVars, obsVars, flipped >>
    /\ UNCHANGED << session, ended, capture_fh, rxVars >>

InitServer == InitPeer

NextServer == ConnSend \/ WaitingSend \/ PeerClose \/ Accept \/ Responder

SpecServer == InitServer /\ [][NextServer]_vars

\* ------------------------------------------------------------------------
\* The Initiator's receiver: receive_astm_from_plugin, called by main after
\* send_astm_message has returned, against a peer that writes chunks
\* ------------------------------------------------------------------------
\* bytes.decode("ascii", errors="replace"): U+FFFD for a byte above 127
decode_ascii(bs) == [k \in 1..Len(bs) |-> IF bs[k] < 128 THEN bs[k] ELSE 65533]

\* the characters str.strip() removes
IsStrSpace(ch) == ch \in (9..13) \cup (28..32) \cup {133, 160}

RECURSIVE LStrip(_)
LStrip(t) == IF t # <<>> /\ IsStrSpace(Head(t)) THEN LStrip(Tail(t)) ELSE t

RECURSIVE RStrip(_)
RStrip(t) == IF t # <<>> /\ IsStrSpace(Last(t)) THEN RStrip(SubSeq(t, 1, Len(t) - 1)) ELSE t

str_strip(t) == RStrip(LStrip(t))

\* msg = assembled.decode("ascii", errors="replace"); msg.replace("\r\n", "\r").strip()
returned_msg(bs) == str_strip(ReplaceCRLF(decode_ascii(bs)))

\* sock.sendall(bytes([ACK])) of the receiver: succeeds, or raises when the
\* plugin is gone
XSendAll(next) ==
    \/ /\ c2s' = Append(c2s, ACK)
       /\ wire' = Append(wire, << "I", << ACK >> >>)
       /\ xpc' = next
    \/ /\ pClosed
       /\ xpc' = "raised"
       /\ UNCHANGED << c2s, wire >>

\* a sock.recv of the receiver finds no byte within 10 s: socket.timeout
XTimeout ==
    /\ xpc \in {"wait_enq", "loop", "frame_no", "payload", "chk", "trailer"}
    /\ s2c = <<>>
    /\ ~pClosed
    /\ xpc' = "raised"
    /\ lastEvent' = "read_timeout"
    /\ UNCHANGED << connVars, respVars, initVars, wire, verdicts, enqSeen, peerVars >>
    /\ UNCHANGED << srvVars, assembled, xpayload, chk, response, pClosed >>

\* b = sock.recv(1) while waiting for ENQ
XWaitENQ ==
    /\ xpc = "wait_enq"
    /\ s2c # <<>>
    /\ s2c' = Tail(s2c)
    /\ IF Head(s2c) = ENQ
       THEN /\ XSendAll("loop")
            /\ enqSeen' = TRUE
            /\ lastEvent' = "enq"
       ELSE /\ lastEvent' = "ignored"
            /\ UNCHANGED << c2s, wire, xpc, enqSeen >>
    /\ assembled' = <<>>
    /\ UNCHANGED << cClosed, respVars, initVars, verdicts, peerVars >>
    /\ UNCHANGED << srvVars, xpayload, chk, response, pClosed >>

\* if not b: return ""   /   return assembled.decode("ascii", errors="replace")
XClosed ==
    /\ xpc \in {"wait_enq", "loop"}
    /\ s2c = <<>>
    /\ pClosed
    /\ response' = IF xpc = "wait_enq" THEN <<>> ELSE decode_ascii(assembled)
    /\ xpc' = "returned"
    /\ lastEvent' = "closed"
    /\ UNCHANGED << connVars, respVars, initVars, wire, verdicts, enqSeen, peerVars >>
    /\ UNCHANGED << srvVars, assembled, xpayload, chk, pClosed >>

\* variant: at EOT the assembled payloads are returned as they are
XLoop_raw ==
    /\ xpc = "loop"
    /\ s2c # <<>>
    /\ s2c' = Tail(s2c)
    /\ CASE Head(s2c) = EOT ->
              /\ response' = decode_ascii(assembled)
              /\ xpc' = "returned"
              /\ lastEvent' = "eot"
         [] Head(s2c) = STX ->
              /\ xpc' = "frame_no"
              /\ lastEvent' = "stx"
              /\ UNCHANGED response
         [] OTHER ->
              /\ lastEvent' = "ignored"
              /\ UNCHANGED << xpc, response >>
    /\ UNCHANGED << c2s, cClosed, respVars, initVars, wire, verdicts, enqSeen, peerVars >>
    /\ UNCHANGED << srvVars, assembled, xpayload, chk, pClosed >>

\* b = sock.recv(1) at the frame boundary: EOT, STX or an unexpected byte
XLoop ==
    /\ xpc = "loop"
    /\ s2c # <<>>
    /\ s2c' = Tail(s2c)
    /\ CASE Head(s2c) = EOT ->
              /\ response' = returned_msg(assembled)
              /\ xpc' = "returned"
              /\ lastEvent' = "eot"
         [] Head(s2c) = STX ->
              /\ xpc' = "frame_no"
              /\ lastEvent' = "stx"
              /\ UNCHANGED response
         [] OTHER ->
              /\ lastEvent' = "ignored"
              /\ UNCHANGED << xpc, response >>
    /\ UNCHANGED << c2s, cClosed, respVars, initVars, wire, verdicts, enqSeen, peerVars >>
    /\ UNCHANGED << srvVars, assembled, xpayload, chk, pClosed >>

\* frame_no_b = sock.recv(1); payload = bytearray()
XFrameNo ==
    /\ xpc = "frame_no"
    /\ s2c # <<>>
    /\ s2c' = Tail(s2c)
    /\ xpayload' = <<>>
    /\ xpc' = "payload"
    /\ lastEvent' = "frame_no"
    /\ UNCHANGED << c2s, cClosed, respVars, initVars, wire, verdicts, enqSeen, peerVars >>
    /\ UNCHANGED << srvVars, assembled, chk, response, pClosed >>

\* c = sock.recv(1): ETX ends the payload, every other byte is appended
XPayload ==
    /\ xpc = "payload"
    /\ s2c # <<>>
    /\ s2c' = Tail(s2c)
    /\ IF Head(s2c) = ETX
       THEN xpc' = "chk" /\ UNCHANGED xpayload
       ELSE xpayload' = Append(xpayload, Head(s2c)) /\ UNCHANGED xpc
    /\ lastEvent' = "body_byte"
    /\ UNCHANGED << c2s, cClosed, respVars, initVars, wire, verdicts, enqSeen, peerVars >>
    /\ UNCHANGED << srvVars, assembled, chk, response, pClosed >>

\* the stream ends after STX or inside the payload: RuntimeError
XFrameClosed ==
    /\ xpc \in {"frame_no", "payload"}
    /\ s2c = <<>>
    /\ pClosed
    /\ xpc' = "raised"
    /\ lastEvent' = "closed"
    /\ UNCHANGED << connVars, respVars, initVars, wire, verdicts, enqSeen, peerVars >>
    /\ UNCHANGED << srvVars, assembled, xpayload, chk, response, pClosed >>

\* what one sock.recv(2) can return: b"" at the end of the stream, else the
\* one or two bytes that have arrived
Recv2 ==
    IF s2c = <<>> THEN { <<>> }
    ELSE { SubSeq(s2c, 1, n) : n \in 1..(IF Len(s2c) >= 2 THEN 2 ELSE 1) }

\* chk = sock.recv(2)
XChk ==
    /\ xpc = "chk"
    /\ s2c # <<>> \/ pClosed
    /\ \E got \in Recv2 :
          /\ chk' = got
          /\ s2c' = SubSeq(s2c, Len(got) + 1, Len(s2c))
    /\ xpc' = "trailer"
    /\ lastEvent' = "chk"
    /\ UNCHANGED << c2s, cClosed, respVars, initVars, wire, verdicts, enqSeen, peerVars >>
    /\ UNCHANGED << srvVars, assembled, xpayload, response, pClosed >>

\* trailer = sock.recv(2); short reads raise; assembled.extend(payload);
\* sock.sendall(bytes([ACK]))
XTrailer ==
    /\ xpc = "trailer"
    /\ s2c # <<>> \/ pClosed
    /\ \E trailer \in Recv2 :
          /\ s2c' = SubSeq(s2c, Len(trailer) + 1, Len(s2c))
          /\ IF Len(chk) < 2 \/ Len(trailer) < 2
             THEN /\ xpc' = "raised"
                  /\ lastEvent' = "incomplete_trailer"
                  /\ UNCHANGED << c2s, wire, assembled, verdicts >>
             ELSE /\ assembled' = assembled \o xpayload
                  /\ XSendAll("loop")
                  /\ verdicts' = Append(verdicts, [payload |-> xpayload, ok |-> TRUE,
                                                   written |-> (xpc' = "loop")])
                  /\ lastEvent' = "frame"
    /\ UNCHANGED << cClosed, respVars, initVars, enqSeen, peerVars >>
    /\ UNCHANGED << srvVars, xpayload, chk, response, pClosed >>

\* leaving the with block of main closes the socket
XClose ==
    /\ ipc = "sent"
    /\ xpc \in {"returned", "raised"}
    /\ ipc' = "closed"
    /\ cClosed' = TRUE
    /\ UNCHANGED << c2s, s2c, respVars, astm_message, frames, i, obsVars, peerVars >>
    /\ UNCHANGED extVars

Receiver ==
    \/ XWaitENQ
    \/ XLoop
    \/ XFrameNo
    \/ XPayload
    \/ XChk
    \/ XTrailer
    \/ XClosed
    \/ XFrameClosed
    \/ XTimeout
    \/ XClose

\* " A" CR LF in one frame and "B" CR in the next, the second with a
\* checksum field and a trailer that do not fit
RecSp == << 32, 65, CR, LF >>
RecB2 == << 66, CR >>
FrameSp == RawFrame(49, RecSp, ETX, GoodCk(49, RecSp, ETX), << CR, LF >>)
FrameB2 == RawFrame(50, RecB2, ETX, BadCk(50, RecB2, ETX), << LF, CR >>)
FrameARest == SubSeq(FrameA, 7, 9)

PluginChunks ==
    { << ENQ >>, << EOT >>, << NAK >>, FrameA, FrameB, FrameABadBoth,
      FrameAHalfCk, FrameARest, FrameSp \o FrameB2 }

\* the plugin writes
PluginSend ==
    /\ xpc # "off"
    /\ ~pClosed
    /\ ~cClosed
    /\ s2c = <<>>
    /\ sends < MaxSends
    /\ \E chunk \in PluginChunks :
          /\ s2c' = chunk
          /\ wire' = Append(wire, << "R", chunk >>)
    /\ sends' = sends + 1
    /\ UNCHANGED << c2s, cClosed, respVars, initVars, verdicts, enqSeen, lastEvent, flipped >>
    /\ UNCHANGED extVars

InitRecv ==
    /\ rpc = "off"
    /\ full_message = <<>>
    /\ frame = <<>>
    /\ checksum_input = <<>>
    /\ buf = <<>>
    /\ cks = <<>>
    /\ elapsed = 0
    /\ endedBy = ""
    /\ dumped = <<>>
    /\ capture = <<>>
    /\ wire = <<>>
    /\ verdicts = <<>>
    /\ enqSeen = FALSE
    /\ lastEvent = "connected"
    /\ c2s = <<>>
    /\ s2c = <<>>
    /\ cClosed = FALSE
    /\ ipc = "sent"
    /\ astm_message = <<>>
    /\ frames = <<>>
    /\ i = 1
    /\ sends = 0
    /\ flipped = -1
    /\ SrvInit
    /\ xpc = "wait_enq"
    /\ assembled = <<>>
    /\ xpayload = <<>>
    /\ chk = <<>>
    /\ response = <<>>
    /\ pClosed = FALSE

NextRecv == PluginSend \/ PluginClose \/ Receiver

SpecRecv == InitRecv /\ [][NextRecv]_vars

\* ========================================================================
\* Properties
\* ========================================================================
\* the writes of one side, in order
Written(side) == SelectSeq(wire, LAMBDA w : w[1] = side)

RAck == << "R", << ACK >> >>
RNak == << "R", << NAK >> >>

OnWire(w) == \E k \in 1..Len(wire) : wire[k] = w

\* a payload with the record separator the assembler guarantees
WithCR(p) == IF p # <<>> /\ p[Len(p)] = CR THEN p ELSE Append(p, CR)

\* the non-empty records of the logical message, as bytes
RecordsOf(m) == [k \in 1..Len(lines(m)) |-> encode_ascii(lines(m)[k])]

\* ENQ, ACK, then (frame, ACK) for every record, then EOT
RECURSIVE FrameAckPairs(_)
FrameAckPairs(fs) ==
    IF fs = <<>> THEN <<>>
    ELSE << << "I", Head(fs) >>, RAck >> \o FrameAckPairs(Tail(fs))

HappyPath(m) ==
    (<< << "I", << ENQ >> >>, RAck >> \o FrameAckPairs(build_frames(m))) \o << << "I", << EOT >> >> >>

\* C1: over a channel that alters nothing, the writes of the two sides are
\* always a prefix of ENQ, ACK, N x (frame, ACK), EOT; and when the Responder
\* ends through EOT the whole sequence has been exchanged and full_message is
\* the N records in order, each followed by exactly one CR.
C1_EndToEnd ==
    flipped = -1 =>
        /\ IsPrefix(wire, HappyPath(astm_message))
        /\ endedBy = "eot" =>
              /\ wire = HappyPath(astm_message)
              /\ full_message =
                    Concat([k \in 1..Len(RecordsOf(astm_message)) |->
                               Append(RecordsOf(astm_message)[k], CR)])
              /\ dumped = << full_message >>

C1_Witness ==
    /\ flipped = -1
    /\ endedBy = "eot"
    /\ RecordsOf(astm_message) = << << 65 >>, << 66 >> >>

\* C2: stop-and-wait.  The writes of the two sides strictly alternate,
\* starting with the Initiator, so at most one write (frame) is unanswered;
\* the Initiator is about to write a frame or EOT only when every earlier
\* write has been read and answered with ACK and that ACK has been read; a
\* frame the Responder is still reading is the only one in flight.
C2_StopAndWait ==
    /\ \A k \in 1..Len(wire) : wire[k][1] = IF k % 2 = 1 THEN "I" ELSE "R"
    /\ ipc \in {"frame", "eot"} =>
          /\ c2s = <<>>
          /\ s2c = <<>>
          /\ Len(wire) = 2 * i
          /\ wire[Len(wire)] = RAck
    /\ ipc = "frame_resp" /\ rpc \notin {"loop", "done"} /\ flipped = -1 =>
          /\ wire[Len(wire)] = << "I", frames[i] >>
          /\ frames[i] = (<< STX >> \o frame)
                             \o ((IF rpc = "crlf" THEN cks \o buf ELSE buf) \o c2s)

C2_Witness ==
    /\ ipc = "frame_resp"
    /\ i = 2
    /\ rpc = "body"
    /\ Len(wire) = 5

\* the Responder takes a step that reads the byte at the head of c2s
ReadsByte == c2s # <<>> /\ c2s' = Tail(c2s)

\* the step completes a frame: the second trailer byte is read
CompletesFrame == rpc = "crlf" /\ Len(buf) = 1 /\ ReadsByte

\* the Responder's write in a step, if any
WritesOnly(b) == wire' = Append(wire, << "R", << b >> >>) /\ s2c' = Append(s2c, b)
WritesNothing == wire' = wire /\ s2c' = s2c

\* C3: a frame that arrives complete (CR LF trailer) from a connected peer
\* with a checksum field that does not match the recomputed checksum is
\* answered with NAK, leaves full_message unchanged and leaves the session
\* open at the frame boundary; with a matching checksum field the payload
\* (with its CR) is appended and ACK is written - also when the same frame
\* was NAKed just before.
C3_NakThenAck ==
    [][ (CompletesFrame /\ ~cClosed /\ << buf[1], Head(c2s) >> = << CR, LF >>) =>
            IF recv_ck(cks) # calc_checksum(checksum_input)
            THEN /\ WritesOnly(NAK)
                 /\ full_message' = full_message
                 /\ rpc' = "loop"
                 /\ dumped' = dumped
            ELSE /\ WritesOnly(ACK)
                 /\ full_message' = full_message \o WithCR(payload(frame))
                 /\ rpc' = "loop"
      ]_vars

C3_Witness ==
    /\ wire = << << "I", FrameABadCk >>, RNak, << "I", FrameA >>, RAck >>
    /\ full_message = RecA
    /\ rpc = "loop"

\* payloads of the judged frames that satisfy a condition, each with its CR
RECURSIVE Assembled(_)
Assembled(vs) ==
    IF vs = <<>> THEN <<>> ELSE WithCR(Head(vs).payload) \o Assembled(Tail(vs))

\* C4 as stated: full_message is the concatenation of the payloads of the
\* frames for which an ACK was sent.
C4_OnlyAcked == full_message = Assembled(SelectSeq(verdicts, LAMBDA v : v.ok /\ v.written))

\* C4 amended: full_message is the concatenation, in receipt order, of the
\* payloads (each with its CR) of the frames whose checksum matched.  Each of
\* them was answered with ACK and every other judged frame with NAK, except
\* that the last write may have failed, which ends the session; the payload
\* appended before a failed ACK stays in full_message.
C4_Assembled ==
    /\ full_message = Assembled(SelectSeq(verdicts, LAMBDA v : v.ok))
    /\ Written("R") =
          [k \in 1..Len(Written("R")) |-> << "R", << Written("R")[k][2][1] >> >>]
    /\ \A k \in 1..Len(verdicts) :
          ~verdicts[k].written => k = Len(verdicts) /\ endedBy = "error"
    /\ Len(SelectSeq(Written("R"), LAMBDA w : w = RNak))
          = Len(SelectSeq(verdicts, LAMBDA v : ~v.ok /\ v.written))

C4_Witness ==
    /\ Len(verdicts) = 3
    /\ verdicts[1].ok /\ ~verdicts[2].ok /\ verdicts[3].ok
    /\ verdicts[1].payload = RecA /\ verdicts[3].payload = RecB
    /\ full_message = (RecA \o RecB) \o << CR >>

\* the Responder has reacted to the one frame written to it
Settled == sends = 1 /\ (rpc = "done" \/ (rpc = "loop" /\ c2s = <<>>))

\* C5 as stated: after one bit of one payload byte of an encoded frame is
\* flipped, the Responder answers NAK, never ACK, and appends nothing.
C5_AlwaysNak ==
    (flipped # -1 /\ Settled) =>
        /\ s2c = << NAK >>
        /\ full_message = <<>>

\* C5 amended: after such a flip the Responder never writes ACK and appends
\* nothing.  When the flipped byte is neither ETX nor ETB the frame is judged
\* with a checksum mismatch and answered with NAK, the session staying open.
\* When the flip makes the byte ETX or ETB the body ends there, the two bytes
\* read as trailer are not CR LF, and the session ends without ACK or NAK.
C5_FlipRejected ==
    flipped # -1 =>
        /\ full_message = <<>>
        /\ ~OnWire(RAck)
        /\ Settled =>
              IF flipped \in {ETX, ETB}
              THEN /\ rpc = "done"
                   /\ endedBy = "no_crlf"
                   /\ s2c = <<>>
                   /\ verdicts = <<>>
                   /\ dumped = << <<>> >>
              ELSE /\ rpc = "loop"
                   /\ s2c = << NAK >>
                   /\ Len(verdicts) = 1
                   /\ ~verdicts[1].ok

C5_Witness ==
    /\ flipped \notin {-1, ETX, ETB}
    /\ Settled
    /\ s2c = << NAK >>
    /\ frame[1] = 48

\* C6: the frame build_frames encodes for the k-th non-empty record, read by
\* the Responder, is never aborted; the Responder recovers the number byte
\* '0' + (k mod 8) and, as payload, the record bytes followed by CR; the
\* recomputed checksum equals the transmitted one and the answer is ACK.
C6_RoundTrip ==
    (flipped = -1 /\ sends = 1) =>
        /\ endedBy = ""
        /\ ~OnWire(RNak)
        /\ Settled =>
              /\ frame[1] = 48 + (i % 8)
              /\ payload(frame) = Append(RecordsOf(astm_message)[i], CR)
              /\ recv_ck(cks) = calc_checksum(checksum_input)
              /\ cks = checksum_str(calc_checksum(checksum_input))
              /\ s2c = << ACK >>
              /\ full_message = Append(RecordsOf(astm_message)[i], CR)

C6_Witness ==
    /\ flipped = -1
    /\ Settled
    /\ i = 8
    /\ frame[1] = 48
    /\ payload(frame) = << 55, 63, CR >>
    /\ s2c = << ACK >>

\* C7 as stated: a frame whose trailer is not CR LF is judged on its checksum
\* alone (ACK and append, or NAK) and the session continues.
C7_TrailerTolerated ==
    [][ (CompletesFrame /\ ~cClosed /\ << buf[1], Head(c2s) >> # << CR, LF >>) =>
            /\ rpc' = "loop"
            /\ IF recv_ck(cks) = calc_checksum(checksum_input)
               THEN WritesOnly(ACK) /\ full_message' = full_message \o WithCR(payload(frame))
               ELSE WritesOnly(NAK) /\ full_message' = full_message
      ]_vars

\* C7 amended: a frame whose checksum field is followed by two bytes that are
\* not CR LF is aborted whatever its checksum: the Responder writes neither
\* ACK nor NAK, appends nothing, dumps the message assembled so far and ends
\* the session.
C7_TrailerAborts ==
    [][ (CompletesFrame /\ << buf[1], Head(c2s) >> # << CR, LF >>) =>
            /\ WritesNothing
            /\ full_message' = full_message
            /\ verdicts' = verdicts
            /\ rpc' = "done"
            /\ endedBy' = "no_crlf"
            /\ dumped' = Append(dumped, full_message)
      ]_vars

C7_Witness ==
    /\ endedBy = "no_crlf"
    /\ wire = << << "I", << ENQ >> >>, RAck, << "I", FrameA >>, RAck, << "I", FrameABadTrailer >> >>
    /\ recv_ck(cks) = calc_checksum(checksum_input)
    /\ dumped = << RecA >>

\* a read of the Responder blocks until the socket timeout expires
TimeoutExpires ==
    /\ rpc # "done"
    /\ c2s = <<>> /\ ~cClosed
    /\ lastEvent' = "read_timeout"
    /\ elapsed' # elapsed \/ rpc' # rpc

\* C8 as stated: the expiry of one read timeout never ends the session,
\* whichever read is blocked, and the session keeps what it has assembled.
C8_TimeoutNeverEnds ==
    [][ TimeoutExpires => (rpc' # "done" /\ full_message' = full_message /\ dumped' = dumped) ]_vars

\* C8 amended: the expiry of the read timeout of the control-byte read at the
\* top of the loop never ends the session: the session stays at that read,
\* keeps full_message and dumps nothing (the idle check is evaluated next).
\* The expiry of a read timeout inside a frame (frame number, body, checksum,
\* trailer) ends the session: the frame is dropped without ACK or NAK and the
\* message assembled so far is dumped.
C8_TimeoutAtBoundary ==
    [][ TimeoutExpires =>
            /\ full_message' = full_message
            /\ WritesNothing
            /\ IF rpc = "loop"
               THEN /\ rpc' = "loop"
                    /\ endedBy' = ""
                    /\ dumped' = dumped
                    /\ elapsed' = elapsed + READ_TIMEOUT_S
               ELSE /\ rpc' = "done"
                    /\ endedBy' = "socket_timeout"
                    /\ dumped' = Append(dumped, full_message)
      ]_vars

C8_Witness ==
    /\ lastEvent = "read_timeout"
    /\ rpc = "loop"
    /\ elapsed = IDLE_TIMEOUT_S
    /\ full_message = RecA
    /\ dumped = <<>>
    /\ capture = <<>>

\* the session has ended and handed over exactly what it had assembled
ClosedWithDump == rpc = "done" /\ dumped = << full_message >>

\* C9: whenever the peer is silent in an open session, whatever the Responder
\* is waiting for, then unless the peer writes or closes the session ends and
\* hands over exactly full_message; and every session ends that way.
C9_IdleCloses ==
    /\ (rpc # "done" /\ Silent) ~> (ClosedWithDump \/ ~Silent)
    /\ <>ClosedWithDump

C9_Witness ==
    /\ endedBy = "idle"
    /\ wire = << << "I", << ENQ >> >>, RAck >>
    /\ dumped = << <<>> >>
    /\ ~cClosed

\* the Responder reads a byte at the top of its loop before any ENQ
ReadsBeforeENQ == ~enqSeen /\ rpc = "loop" /\ ReadsByte

\* C10 as stated: until the first ENQ every byte that is not ENQ is ignored.
C10_AllIgnored ==
    [][ (ReadsBeforeENQ /\ Head(c2s) # ENQ) =>
            /\ rpc' = "loop"
            /\ WritesNothing
            /\ full_message' = full_message
            /\ dumped' = dumped
      ]_vars

\* C10 amended: until the first ENQ the Responder treats a byte as it does
\* afterwards.  ENQ is answered with ACK; EOT ends the session and dumps
\* full_message; STX starts a frame decode (a frame with a matching checksum
\* is then appended and ACKed); every other byte, ACK and NAK included, is
\* ignored: nothing is written, nothing appended, the session stays open.
C10_BeforeENQ ==
    [][ ReadsBeforeENQ =>
            /\ full_message' = full_message
            /\ CASE Head(c2s) = ENQ ->
                      (~cClosed => WritesOnly(ACK) /\ rpc' = "loop" /\ dumped' = dumped)
                 [] Head(c2s) = EOT ->
                      /\ WritesNothing
                      /\ rpc' = "done"
                      /\ endedBy' = "eot"
                      /\ dumped' = Append(dumped, full_message)
                 [] Head(c2s) = STX ->
                      /\ WritesNothing
                      /\ rpc' = "frame_no"
                      /\ dumped' = dumped
                 [] OTHER ->
                      /\ WritesNothing
                      /\ rpc' = "loop"
                      /\ endedBy' = ""
                      /\ dumped' = dumped
      ]_vars

C10_Witness ==
    /\ ~enqSeen
    /\ wire = << << "I", << NAK >> >>, << "I", FrameA >>, RAck, << "I", << EOT >> >> >>
    /\ endedBy = "eot"
    /\ dumped = << RecA >>

\* ------------------------------------------------------------------------
\* C11
\* ------------------------------------------------------------------------
\* a byte is read at the frame boundary after an ENQ has been answered
ReadsAfterENQ == enqSeen /\ rpc = "loop" /\ ReadsByte

Ignored ==
    /\ WritesNothing
    /\ full_message' = full_message
    /\ rpc' = "loop"
    /\ endedBy' = ""
    /\ dumped' = dumped

\* C11 as stated: after the Responder has answered an ENQ, a byte at the
\* frame boundary that is neither EOT nor STX - ACK, NAK, a repeated ENQ or
\* any other byte - is ignored: no byte is written, full_message is unchanged
\* and the session stays open.
C11_RepeatedEnqIgnored ==
    [][ (ReadsAfterENQ /\ Head(c2s) \notin {EOT, STX}) => Ignored ]_vars

\* C11 amended: after an answered ENQ, a byte at the frame boundary that is
\* none of ENQ, EOT, STX (ACK and NAK included) is ignored: no byte is
\* written, full_message is unchanged and the session stays open.  A repeated
\* ENQ is not ignored: a connected peer gets another ACK for it, and
\* full_message is unchanged.
C11_BoundaryBytes ==
    [][ (ReadsAfterENQ /\ Head(c2s) \notin {EOT, STX}) =>
            IF Head(c2s) = ENQ
            THEN /\ full_message' = full_message
                 /\ ~cClosed => (WritesOnly(ACK) /\ rpc' = "loop" /\ dumped' = dumped)
            ELSE Ignored
      ]_vars

\* an ENQ, a NAK and a second ENQ were read: two ACKs, nothing for the NAK
C11_Witness ==
    /\ wire = << << "I", << ENQ >> >>, RAck, << "I", << NAK >> >>,
                 << "I", << ENQ >> >>, RAck >>
    /\ c2s = <<>>
    /\ rpc = "loop"
    /\ full_message = <<>>
    /\ lastEvent = "enq"

\* ------------------------------------------------------------------------
\* C12
\* ------------------------------------------------------------------------
\* the Initiator stops waiting for a response: sock.recv(1) has returned
\* (a byte or b"") or has timed out
EndsWait == ipc \in {"enq_resp", "frame_resp"} /\ ipc' # ipc

\* C12: at each point where the Initiator waits for a response (after ENQ
\* and after each frame) anything other than ACK - NAK, any other byte, a
\* closed or silent stream - aborts the session, and once the session is
\* aborted the Initiator writes no byte at all: no resend, no later frame,
\* no EOT.
C12_AbortIsFinal ==
    [][ /\ (EndsWait /\ ~(s2c # <<>> /\ Head(s2c) = ACK)) => ipc' = "aborted"
        /\ (ipc = "aborted" \/ (ipc = "closed" /\ ~OnWire(<< "I", << EOT >> >>))) =>
              /\ ipc' \in {"aborted", "closed"}
              /\ Len(c2s') <= Len(c2s)
              /\ Written("I")' = Written("I")
      ]_vars

\* the first frame was answered with NAK: nothing was written after it
C12_Witness ==
    /\ ipc = "closed"
    /\ Len(frames) = 2
    /\ wire = << << "I", << ENQ >> >>, RAck, << "I", frames[1] >>, RNak >>
    /\ c2s = << ENQ >> \o frames[1]

\* ------------------------------------------------------------------------
\* C13
\* ------------------------------------------------------------------------
EndPaths == { "eot", "peer_closed", "idle", "socket_timeout", "no_frame_number",
              "no_etx", "no_checksum", "no_crlf", "error" }

BodyOverflows ==
    /\ rpc = "body"
    /\ ReadsByte
    /\ Len(buf) + 1 >= max_len
    /\ Head(c2s) \notin {ETX, ETB}

\* C17 as stated: a body that reaches the maximum length without ETX or ETB
\* is not ACKed and not appended, and the Responder stays in the session,
\* waiting for the next STX or EOT, instead of closing.
C17_StaysInSession ==
    [][ BodyOverflows =>
            /\ WritesNothing
            /\ full_message' = full_message
            /\ rpc' \in {"loop", "body"}
            /\ dumped' = dumped
      ]_vars

\* C17 amended: a body that reaches the maximum length without ETX or ETB is
\* not ACKed (nothing at all is written) and not appended, and the session
\* ends at once: full_message is dumped and the connection is closed, though
\* the stream is still readable.
C17_OverflowCloses ==
    [][ BodyOverflows =>
            /\ WritesNothing
            /\ full_message' = full_message
            /\ rpc' = "done"
            /\ endedBy' = "no_etx"
            /\ dumped' = Append(dumped, full_message)
      ]_vars

\* a good frame, then an over-long one from a peer that is still connected
C17_Witness ==
    /\ wire = << << "I", FrameA >>, RAck, << "I", FrameTooLong >> >>
    /\ ~cClosed
    /\ Len(buf) = max_len - 1
    /\ endedBy = "no_etx"
    /\ dumped = << RecA >>

\* ------------------------------------------------------------------------
\* C14
\* ------------------------------------------------------------------------
\* the sessions that have ended, in order: how each ended and what it had
\* assembled (the k-th of them made the k-th call of dump_full_message)
EndedSessions ==
    [k \in 1..Len(ended) |-> [why |-> ended[k].why, msg |-> ended[k].msg]]
        \o (IF rpc = "done" THEN << [why |-> endedBy, msg |-> full_message] >> ELSE <<>>)

\* C14 as stated: what a session hands over at its end tells a session ended
\* by EOT apart from a forced close - for the same assembled bytes the two
\* outcomes differ.
C14_EndingsToldApart ==
    \A j, k \in 1..Len(EndedSessions) :
        (/\ EndedSessions[j].msg = EndedSessions[k].msg
         /\ EndedSessions[j].why = "eot"
         /\ EndedSessions[k].why # "eot") => dumped[j] # dumped[k]

\* C14 amended: what a session hands to dump_full_message at its end is the
\* assembled bytes and nothing else, whichever way the session ended: for the
\* same assembled bytes an EOT-ended session and a forced close hand over the
\* same thing, and there is no completeness flag.  How the session ended is
\* told only by the log line written before the dump.
C14_DumpIsMessageOnly ==
    /\ Len(dumped) = Len(EndedSessions)
    /\ \A k \in 1..Len(EndedSessions) :
          /\ dumped[k] = EndedSessions[k].msg
          /\ EndedSessions[k].why \in EndPaths
    /\ rpc = "done" => (endedBy = "eot" <=> lastEvent = "eot")

\* the same record assembled twice: one session ended by EOT, the next by
\* the peer closing, and the two dumps are equal
C14_Witness ==
    /\ Len(ended) = 1
    /\ ended[1].why = "eot"
    /\ rpc = "done"
    /\ endedBy = "peer_closed"
    /\ dumped = << RecA, RecA >>

\* ------------------------------------------------------------------------
\* C18
\* ------------------------------------------------------------------------
\* the first write on the second connection answers an ENQ that its analyzer
\* wrote while the first session was open
AnswersWaitingENQ ==
    /\ session = 2
    /\ ended[1].pending # <<>>
    /\ Head(ended[1].pending) = ENQ
    /\ Written("R") = <<>>
    /\ WritesOnly(ACK)

\* C18 as stated: the sessions of two accepted connections run concurrently -
\* the ENQ of the second connection is answered with ACK while the first
\* session is still open.
C18_Concurrent ==
    [][ AnswersWaitingENQ => ended[1].why = "" ]_vars

\* a judged frame's payload was written, in a frame, on the connection served
FromThisConnection(v) ==
    \E k \in 1..Len(wire) :
        /\ wire[k][1] = "I"
        /\ Len(wire[k][2]) >= 2 + Len(v.payload)
        /\ wire[k][2][1] = STX
        /\ SubSeq(wire[k][2], 3, 2 + Len(v.payload)) = v.payload

\* C18 amended: the server serves its connections one at a time.  A
\* connection is accepted only when the session before it has ended and been
\* dumped; what a later analyzer wrote meanwhile is read only then, so its ENQ
\* is answered after the earlier session has ended.  Each session starts
\* with an empty message and assembles only payloads received on its own
\* connection.
C18_OneAtATime ==
    /\ Len(ended) = session - 1
    /\ Len(dumped) >= Len(ended)
    /\ \A k \in 1..Len(ended) :
          /\ ended[k].why \in EndPaths
          /\ dumped[k] = ended[k].msg
          /\ ended[k].msg = Assembled(SelectSeq(ended[k].verdicts, LAMBDA v : v.ok))
    /\ full_message = Assembled(SelectSeq(verdicts, LAMBDA v : v.ok))
    /\ \A k \in 1..Len(verdicts) : FromThisConnection(verdicts[k])

\* the second analyzer wrote ENQ while the first session was open; the first
\* session assembled a record and ended by EOT; only then was the ENQ answered
C18_Witness ==
    /\ session = 2
    /\ ended[1].pending = << ENQ >>
    /\ ended[1].why = "eot"
    /\ ended[1].msg = RecA
    /\ wire = << << "I", << ENQ >> >>, RAck >>
    /\ full_message = <<>>
    /\ dumped = << RecA >>

\* ------------------------------------------------------------------------
\* C15
\* ------------------------------------------------------------------------
\* the frame-number characters of a list of frames
NumberChars(fs) == [k \in 1..Len(fs) |-> fs[k][2]]

\* C15: for N non-empty records the i-th frame (counted from 1) carries the
\* frame number i mod 8 as the ASCII character '0' + (i mod 8), right after
\* STX; nine records are numbered 1,2,3,4,5,6,7,0,1.  The frame that is
\* written carries that character on the wire.
C15_FrameNumbers ==
    /\ Len(frames) = Len(RecordsOf(astm_message))
    /\ \A k \in 1..Len(frames) :
          /\ frames[k][1] = STX
          /\ frames[k][2] = 48 + (k % 8)
    /\ Len(frames) = 9 => NumberChars(frames) = << 49, 50, 51, 52, 53, 54, 55, 48, 49 >>
    /\ (sends = 1 /\ flipped = -1) => wire[1][2][2] = 48 + (i % 8)

\* the ninth frame of nine has been written and read: it carries '1' again
C15_Witness ==
    /\ Len(frames) = 9
    /\ i = 9
    /\ flipped = -1
    /\ Settled
    /\ wire[1][2][2] = 49
    /\ frame[1] = 49
    /\ frames[8][2] = 48

\* ------------------------------------------------------------------------
\* C19
\* ------------------------------------------------------------------------
\* the records of a logical message: the maximal runs of bytes that are
\* neither CR nor LF
RECURSIVE RunsOf(_, _)
RunsOf(m, cur) ==
    IF m = <<>> THEN (IF cur = <<>> THEN <<>> ELSE << cur >>)
    ELSE IF Head(m) \in {CR, LF}
         THEN (IF cur = <<>> THEN <<>> ELSE << cur >>) \o RunsOf(Tail(m), <<>>)
         ELSE RunsOf(Tail(m), Append(cur, Head(m)))

\* the payload bytes of an encoded frame
PayloadOf(f) == SubSeq(f, 3, Len(f) - 5)

\* what the Initiator has written, write by write
IWrites == [k \in 1..Len(Written("I")) |-> Written("I")[k][2]]

\* C19: the Initiator sends exactly one frame per non-empty record of the
\* logical message, in record order; empty records (consecutive separators,
\* a trailing separator) give no frame; a frame's payload is the record
\* followed by one CR and holds no other CR; a message without a non-empty
\* record gives ENQ, ACK, EOT and no frame.
C19_OneFramePerRecord ==
    LET recs == RunsOf(astm_message, <<>>)
    IN  /\ ipc \in {"frame", "frame_resp", "eot", "sent"} =>
              /\ Len(frames) = Len(recs)
              /\ \A k \in 1..Len(frames) :
                    /\ PayloadOf(frames[k]) = Append(recs[k], CR)
                    /\ \A q \in 1..Len(recs[k]) : PayloadOf(frames[k])[q] # CR
        /\ IsPrefix(IWrites, (<< << ENQ >> >> \o frames) \o << << EOT >> >>)
        /\ ipc = "sent" => IWrites = (<< << ENQ >> >> \o frames) \o << << EOT >> >>
        /\ (recs = <<>> /\ ipc = "sent") =>
              wire = << << "I", << ENQ >> >>, RAck, << "I", << EOT >> >> >>

\* "A", CR, CR: one record, one frame, then EOT
C19_Witness ==
    /\ astm_message = << 65, CR, CR >>
    /\ ipc = "sent"
    /\ Len(frames) = 1
    /\ IWrites = << << ENQ >>, FrameA, << EOT >> >>

\* an empty logical message: ENQ, ACK, EOT
C19_WitnessEmpty ==
    /\ astm_message = << CR, LF, CR >>
    /\ ipc = "sent"
    /\ wire = << << "I", << ENQ >> >>, RAck, << "I", << EOT >> >> >>

\* ------------------------------------------------------------------------
\* C16
\* ------------------------------------------------------------------------
\* a second logical message has been framed after a first one of i frames
SecondFramed == sends = 2 /\ ipc = "framed"

\* C16 as stated: the frame counter is session-scoped - the first frame of a
\* second logical message framed after N1 frames carries (N1 + 1) mod 8.
C16_SessionScoped ==
    SecondFramed => frames[1][2] = 48 + ((i + 1) % 8)

\* C16 amended: the frame counter is message-scoped - the k-th frame of every
\* logical message carries k mod 8, so the first frame of a second message
\* carries 1 whatever the number N1 of frames framed before it.
C16_MessageScoped ==
    ipc = "framed" =>
        /\ frames # <<>>
        /\ frames[1][2] = 49
        /\ \A k \in 1..Len(frames) : frames[k][2] = 48 + (k % 8)
        /\ Len(wire) = i + Len(frames)

\* after a first message of three frames the second message starts at '1'
C16_Witness ==
    /\ SecondFramed
    /\ i = 3
    /\ Len(frames) = 2
    /\ NumberChars([k \in 1..Len(wire) |-> wire[k][2]]) = << 49, 50, 51, 49, 50 >>

\* ------------------------------------------------------------------------
\* C20
\* ------------------------------------------------------------------------
\* the receiver's write in a step, if any
XWrites(b) == wire' = Append(wire, << "I", << b >> >>) /\ c2s' = Append(c2s, b)
XWritesNothing == Written("I")' = Written("I") /\ c2s' = c2s

\* the receiver reads from the stream
XReads == Len(s2c') < Len(s2c)

\* the payloads of the frames taken so far, in receipt order
RECURSIVE Payloads(_)
Payloads(vs) == IF vs = <<>> THEN <<>> ELSE Head(vs).payload \o Payloads(Tail(vs))

\* every byte before the first ENQ is ignored, the ENQ is answered with ACK
EnqPhase ==
    (xpc = "wait_enq" /\ XReads) =>
        IF Head(s2c) = ENQ
        THEN ~pClosed => (XWrites(ACK) /\ xpc' = "loop")
        ELSE XWritesNothing /\ xpc' = "wait_enq"

JudgesFrame == CompletesFrame /\ << buf[1], Head(c2s) >> = << CR, LF >> /\ ~cClosed

\* C21: the verdict on a complete frame depends on its checksum only, never on
\* its frame-number byte: whether that byte is the number that is due, repeats
\* the previous number, skips a number or is no digit at all, the frame is
\* ACKed and its payload appended when the checksum field matches, and NAKed
\* and not appended when it does not; a duplicate of a frame already ACKed is
\* appended a second time.
C21_NumberNotChecked ==
    [][ JudgesFrame =>
            IF recv_ck(cks) = calc_checksum(checksum_input)
            THEN /\ WritesOnly(ACK)
                 /\ full_message' = full_message \o WithCR(payload(frame))
                 /\ verdicts'[Len(verdicts')].ok
            ELSE /\ WritesOnly(NAK)
                 /\ full_message' = full_message
                 /\ ~verdicts'[Len(verdicts')].ok
      ]_vars

\* a frame whose number byte is not the one that is due is judged ok
C21_OutOfSequenceAccepted ==
    /\ verdicts # <<>>
    /\ verdicts[Len(verdicts)].ok
    /\ frame[1] # 48 + (Len(SelectSeq(verdicts, LAMBDA v : v.ok)) % 8)

\* frame '1' sent twice, then the same record under the byte 'x': three ACKs
\* and three copies of the record
C21_Witness ==
    /\ wire = << << "I", FrameA >>, RAck, << "I", FrameA >>, RAck, << "I", FrameAX >>, RAck >>
    /\ full_message = (RecA \o RecA) \o RecA
    /\ rpc = "loop"

\* frame '3' right after frame '1': a number is skipped
C21_WitnessSkip ==
    /\ wire = << << "I", FrameA >>, RAck, << "I", FrameA3 >>, RAck >>
    /\ full_message = RecA \o RecA

\* ------------------------------------------------------------------------
\* C22
\* ------------------------------------------------------------------------
\* the marker-delimited copy of the assembled message, once the session has ended
MarkedCopy == IF rpc = "done" THEN (NEW_MESSAGE \o full_message) \o END_MESSAGE ELSE <<>>

\* C22 as stated: with a capture sink configured, the payload of every
\* structurally complete frame is written to it, whatever the verdict, and at
\* session end the capture content is the per-frame payloads in receipt order
\* followed by one marker-delimited copy of the assembled message.
C22_RawPayloads ==
    capture_fh => capture = Payloads(verdicts) \o MarkedCopy

\* C22 amended: with a capture sink configured, the payload of every
\* structurally complete frame is written to it whatever the verdict (so a
\* NAKed frame's payload is in the capture and not in the assembled message),
\* followed by a CR when the payload does not already end with one; at
\* session end the capture content is these CR-terminated payloads in receipt
\* order followed by one marker-delimited copy of the assembled message.
\* Without a capture sink nothing is written.
C22_Capture ==
    IF capture_fh
    THEN capture = Assembled(verdicts) \o MarkedCopy
    ELSE capture = <<>>

\* a frame with a wrong checksum, a good one, then EOT: both payloads are in
\* the capture, only the second in the assembled message
C22_Witness ==
    /\ capture_fh
    /\ wire = << << "I", FrameABadCk >>, RNak, << "I", FrameB >>, RAck, << "I", << EOT >> >> >>
    /\ endedBy = "eot"
    /\ full_message = << 66, CR >>
    /\ capture = (((RecA \o << 66, CR >>) \o NEW_MESSAGE) \o << 66, CR >>) \o END_MESSAGE

\* ------------------------------------------------------------------------
\* Fairness: the Responder's thread keeps running and its timeouts expire
\* ------------------------------------------------------------------------
SpecPeerLive == SpecPeer /\ WF_vars(Responder)

====
